---- MODULE Spec2Model ----
(***************************************************************************)
(* A model of dehashed-rs: the paginating search of src/src/api.rs         *)
(* (DehashedApi::raw_req, DehashedApi::search, SearchEntry::try_from) and  *)
(* the scheduler of src/src/scheduler.rs (one tokio task draining a        *)
(* bounded mpsc channel of ScheduledRequests, replying on oneshot          *)
(* channels, stopped by JoinHandle::abort).                                *)
(*                                                                         *)
(* Two specifications share the variables:                                 *)
(*   Spec        the scheduler: producers, the queue, the worker task      *)
(*   SpecSearch  one direct call of DehashedApi::search                    *)
(***************************************************************************)
EXTENDS Integers, Sequences, FiniteSets, TLC

(***************************************************************************)
(* Bounds of the model.                                                    *)
(***************************************************************************)
\* the provider reports a total below MaxPage * PageSize: a search has at
\* most MaxPage pages
MaxPage == 2
\* a page carries at most MaxEntries entries
MaxEntries == 2

\* at most MaxReq ScheduledRequests are created
MaxReq == 6
\* at most MaxClones Scheduler handles are alive
MaxClones == 2
\* at most MaxFaults faults happen: a page request of the worker that fails, a
\* caller that drops the receiving end of its reply channel
MaxFaults == 1
\* the longest leaf text of a query that is rendered
MaxText == 2
\* the longest list of children of an Or or an And
MaxList == 2

(***************************************************************************)
(* Program constants.                                                      *)
(***************************************************************************)
\* api.rs:301 raw_req(10_000, ..) and api.rs:316 page * 10_000
PageSize == 10000
\* scheduler.rs:42 mpsc::channel(5)
QueueCap == 5

VARIABLES
    \* ---- the task that runs search (the worker, or the direct caller)
    pc,             \* its position: the await it is suspended at
    \* ---- locals of DehashedApi::search
    query,          \* the query argument
    page,           \* the loop variable of `for page in 1..`
    search_result,  \* the accumulator: [entries, balance]
    result,         \* the value search returned
    \* ---- the provider and the history of one search
    httpInFlight,   \* number of HTTP requests sent and not yet answered
    calls,          \* the raw_req calls of this search: <<[size, page, query]>>
    delays,         \* number of inter-page sleeps started by this search
    hist,           \* the wire entry lists of the pages added to search_result
    lastResp,       \* the last response raw_req received
    \* ---- the worker task of Scheduler::new
    running,        \* the task is being polled (it runs up to its next await)
    cancelled,      \* JoinHandle::abort was called on the unfinished task
    workers,        \* number of worker tasks spawned
    cur,            \* the request `req` the worker holds, 0 when none
    \* ---- the mpsc channel
    queue,          \* the requests sent and not yet received, oldest first
    waiters,        \* the suspended sends, in the order they suspended
    sst,            \* per request, where its send is:
                    \*   "none" "waiting" "granted" "queued" "taken"
                    \*   "failed" (SendError) "dropped" (dropped with the queue)
    \* ---- the handles
    schedCount,     \* Scheduler handles alive (each owns a Sender)
    senderAlive,    \* some Sender from retrieve_sender, or a clone of one, is alive
    \* ---- the oneshot reply channels
    reply,          \* per request [st, q, val]: st is "none" (not created),
                    \*   "open", "value" (a value was sent), "closed" (the
                    \*   sending end was dropped or consumed without a value)
    rxAlive,        \* per request: the caller still holds the receiving end
    \* ---- history
    nextId,         \* number of requests created
    enqOrder,       \* the requests in the order their sends completed
    startOrder,     \* the requests in the order the worker called search
    searches,       \* per request, the number of calls of search for it
    sends,          \* per request, the number of reply sends attempted
    stopQueued,     \* the requests that were in the queue at a stop_scheduler
    lateEnq,        \* the requests whose send completed after a stop_scheduler
    faults          \* number of faults so far (see MaxFaults)

searchVars == <<query, page, search_result, result, httpInFlight, calls,
                delays, hist, lastResp>>
taskVars == <<running, cancelled, workers, cur>>
chanVars == <<queue, waiters, sst>>
handleVars == <<schedCount, senderAlive>>
replyVars == <<reply, rxAlive>>
histVars == <<nextId, enqOrder, startOrder, searches, sends, stopQueued, lateEnq,
              faults>>
schedVars == <<taskVars, chanVars, handleVars, replyVars, histVars>>

vars == <<pc, searchVars, schedVars>>

(***************************************************************************)
(* Wire data: res.rs Entry and Response. A string field is a string; the   *)
(* optional `entries` is [present, list].                                  *)
(***************************************************************************)
Wire(id, ip, email) ==
    [id |-> id, email |-> email, username |-> "", password |-> "",
     hashed_password |-> "", ip_address |-> ip, name |-> "", vin |-> "",
     address |-> "", phone |-> "", database_name |-> ""]

EntryA == Wire("5", "1.2.3.4", "")
EntryB == Wire("7", "", "a@b.c")
EntryBadIp == Wire("9", "not-an-ip", "")
EntryBadBoth == Wire("x", "not-an-ip", "")

\* the entries the provider may send
EntryPool == {EntryA, EntryB, EntryBadIp, EntryBadBoth}

SeqsUpTo(S, n) == UNION {[1..k -> S] : k \in 0..n}

None == [some |-> FALSE, v |-> ""]
Some(x) == [some |-> TRUE, v |-> x]

\* str::parse::<u64> on the id strings of the pool
ParseU64(s) ==
    CASE s = "5" -> [ok |-> TRUE, v |-> 5]
      [] s = "7" -> [ok |-> TRUE, v |-> 7]
      [] s = "9" -> [ok |-> TRUE, v |-> 9]
      [] OTHER   -> [ok |-> FALSE, v |-> 0]

\* IpAddr::from_str on the address strings of the pool
IpAddrFromStr(s) ==
    IF s \in {"1.2.3.4", "::1"} THEN [ok |-> TRUE, v |-> s]
                                ELSE [ok |-> FALSE, v |-> ""]

OptStringMutAlwaysSome(s) == Some(s)

\* lines 159-163: if value.f.is_empty() { None } else { Some(value.f) }
OptString(s) == IF s = "" THEN None ELSE Some(s)

\* impl TryFrom<Entry> for SearchEntry: the fields are evaluated in the order
\* written, `?` returns at the first failure (id before ip_address)
TryFromEntry(value) ==
    LET id == ParseU64(value.id)
        ip == IpAddrFromStr(value.ip_address)
    IN  IF ~id.ok THEN [ok |-> FALSE, err |-> "ParseIntError", v |-> None]
        ELSE IF value.ip_address # "" /\ ~ip.ok
             THEN [ok |-> FALSE, err |-> "ParseAddrError", v |-> None]
        ELSE [ok |-> TRUE, err |-> "none",
              v |-> [id |-> id.v,
                     email |-> OptString(value.email),
                     username |-> OptString(value.username),
                     password |-> OptString(value.password),
                     hashed_password |-> OptString(value.hashed_password),
                     ip_address |-> IF value.ip_address = "" THEN None
                                    ELSE Some(ip.v),
                     name |-> OptString(value.name),
                     vin |-> OptString(value.vin),
                     address |-> OptString(value.address),
                     phone |-> OptString(value.phone),
                     database_name |-> OptString(value.database_name)]]

(***************************************************************************)
(* The provider's answers. A response is what one GET yields: whether the  *)
(* transport delivered a response at all, its status, and its body         *)
(* (unreadable, not the JSON of a Response, or a Response).                *)
(***************************************************************************)
NoEntries == [present |-> FALSE, list |-> <<>>]
NoJson == [balance |-> 0, entries |-> NoEntries, success |-> FALSE, total |-> 0]
NoBody == [kind |-> "none", json |-> NoJson]

Balances == {1, 2}
Totals == {k * PageSize + d : k \in 0..(MaxPage - 1), d \in {0, PageSize - 1}}
EntryOpts ==
    {NoEntries} \cup {[present |-> TRUE, list |-> l] : l \in SeqsUpTo(EntryPool, MaxEntries)}
Jsons == [balance : Balances, entries : EntryOpts, success : BOOLEAN, total : Totals]

\* statuses other than 200
OtherStatuses == {301, 302, 400, 401, 404, 500}

TransportFailure == [transport |-> FALSE, status |-> 0, body |-> NoBody]
Responses ==
    {TransportFailure}
    \cup {[transport |-> TRUE, status |-> s, body |-> NoBody] : s \in OtherStatuses}
    \cup {[transport |-> TRUE, status |-> 200, body |-> [kind |-> k, json |-> NoJson]] :
             k \in {"readfail", "garbage"}}
    \cup {[transport |-> TRUE, status |-> 200, body |-> [kind |-> "json", json |-> j]] :
             j \in Jsons}

NoResp == [transport |-> FALSE, status |-> -1, body |-> NoBody]

(***************************************************************************)
(* Results: Result<T, DehashedError>.                                      *)
(***************************************************************************)
EmptyResult == [entries |-> <<>>, balance |-> 0]
Ok(v) == [ok |-> TRUE, err |-> "none", val |-> v]
Err(e) == [ok |-> FALSE, err |-> e, val |-> EmptyResult]
NoResult == [ok |-> FALSE, err |-> "pending", val |-> EmptyResult]

raw_reqMutSwapped(resp) ==
    IF ~resp.transport THEN [ok |-> FALSE, err |-> "ReqwestError", v |-> NoJson]
    ELSE IF resp.status = 302 THEN [ok |-> FALSE, err |-> "InvalidQuery", v |-> NoJson]
    ELSE IF resp.status = 400 THEN [ok |-> FALSE, err |-> "Unauthorized", v |-> NoJson]
    ELSE IF resp.status = 401 THEN [ok |-> FALSE, err |-> "RateLimited", v |-> NoJson]
    ELSE IF resp.status = 200
         THEN IF resp.body.kind = "readfail"
                 THEN [ok |-> FALSE, err |-> "ReqwestError", v |-> NoJson]
              ELSE IF resp.body.kind = "json"
                 THEN [ok |-> TRUE, err |-> "none", v |-> resp.body.json]
              ELSE [ok |-> FALSE, err |-> "Unknown", v |-> NoJson]
    ELSE [ok |-> FALSE, err |-> "Unknown", v |-> NoJson]

\* DehashedApi::raw_req: `send().await?`, the chain over the status, and for
\* 200 `text().await?` and serde_json::from_str
raw_req(resp) ==
    IF ~resp.transport THEN [ok |-> FALSE, err |-> "ReqwestError", v |-> NoJson]
    ELSE IF resp.status = 302 THEN [ok |-> FALSE, err |-> "InvalidQuery", v |-> NoJson]
    ELSE IF resp.status = 400 THEN [ok |-> FALSE, err |-> "RateLimited", v |-> NoJson]
    ELSE IF resp.status = 401 THEN [ok |-> FALSE, err |-> "Unauthorized", v |-> NoJson]
    ELSE IF resp.status = 200
         THEN IF resp.body.kind = "readfail"
                 THEN [ok |-> FALSE, err |-> "ReqwestError", v |-> NoJson]
              ELSE IF resp.body.kind = "json"
                 THEN [ok |-> TRUE, err |-> "none", v |-> resp.body.json]
              ELSE [ok |-> FALSE, err |-> "Unknown", v |-> NoJson]
    ELSE [ok |-> FALSE, err |-> "Unknown", v |-> NoJson]

\* search, lines 309-311: push entry.try_into()? for each entry, in order
RECURSIVE PushEntries(_, _)
PushEntries(acc, es) ==
    IF es = <<>> THEN [ok |-> TRUE, err |-> "none", acc |-> acc]
    ELSE LET t == TryFromEntry(Head(es))
         IN  IF ~t.ok THEN [ok |-> FALSE, err |-> t.err, acc |-> acc]
             ELSE PushEntries(Append(acc, t.v), Tail(es))

\* search, line 316: the break condition
IsLastPageMutLe(total, pg) == total <= pg * PageSize

IsLastPage(total, pg) == total < pg * PageSize

OnPageErrorMutPartial(sr, e) == [kind |-> "break", err |-> "none", sr |-> sr]

\* search, lines 301, 305, 310: `?` and `return Err(..)` leave search with the
\* error; the accumulator is dropped
OnPageError(sr, e) == [kind |-> "err", err |-> e, sr |-> sr]

UpdateBalanceMutSum(old, new) == old + new

\* search, line 314: search_result.balance = res.balance
UpdateBalance(old, new) == new

\* one iteration of the loop of search (lines 301-318) on the response to the
\* request of page pg, with accumulator sr: return Err, break, or go on
SearchPage(sr, pg, resp) ==
    LET rr == raw_req(resp)
    IN  IF ~rr.ok THEN OnPageError(sr, rr.err)
        ELSE IF ~rr.v.success THEN OnPageError(sr, "Unknown")
        ELSE LET pushed == IF rr.v.entries.present
                              THEN PushEntries(sr.entries, rr.v.entries.list)
                              ELSE [ok |-> TRUE, err |-> "none", acc |-> sr.entries]
             IN  IF ~pushed.ok
                    THEN OnPageError([sr EXCEPT !.entries = pushed.acc], pushed.err)
                 ELSE LET sr2 == [entries |-> pushed.acc,
                                  balance |-> UpdateBalance(sr.balance, rr.v.balance)]
                      IN  IF IsLastPage(rr.v.total, pg)
                             THEN [kind |-> "break", err |-> "none", sr |-> sr2]
                             ELSE [kind |-> "continue", err |-> "none", sr |-> sr2]

(***************************************************************************)
(* The steps of search, between its awaits. They set the variables of      *)
(* search; the caller's position is set by the action that uses them.      *)
(***************************************************************************)
\* lines 293-301: the accumulator is created and the request of page 1 sent
SearchCall(qr) ==
    /\ query' = qr
    /\ page' = 1
    /\ search_result' = EmptyResult
    /\ result' = NoResult
    /\ httpInFlight' = httpInFlight + 1
    /\ calls' = <<[size |-> PageSize, page |-> 1, query |-> qr]>>
    /\ delays' = 0
    /\ hist' = <<>>
    /\ lastResp' = NoResp

\* line 324 and the early returns: the value search returns
SearchReturn(out) == IF out.kind = "err" THEN Err(out.err) ELSE Ok(out.sr)

\* lines 301-321: the response of the page arrives and is processed
SearchOnResponse(resp) ==
    LET out == SearchPage(search_result, page, resp)
    IN  /\ httpInFlight' = httpInFlight - 1
        /\ lastResp' = resp
        /\ UNCHANGED <<query, page, calls>>
        /\ CASE out.kind = "err" ->
                  /\ result' = SearchReturn(out)
                  /\ search_result' = EmptyResult
                  /\ hist' = <<>>
                  /\ delays' = delays
             [] out.kind = "break" ->
                  /\ result' = SearchReturn(out)
                  /\ search_result' = EmptyResult
                  /\ hist' = Append(hist, resp.body.json.entries)
                  /\ delays' = delays
             [] OTHER ->
                  /\ result' = result
                  /\ search_result' = out.sr
                  /\ hist' = Append(hist, resp.body.json.entries)
                  /\ delays' = delays + 1

\* lines 321, 300-301: the sleep is over, the next page is requested
SearchNextPage ==
    /\ page' = page + 1
    /\ httpInFlight' = httpInFlight + 1
    /\ calls' = Append(calls, [size |-> PageSize, page |-> page + 1, query |-> query])
    /\ UNCHANGED <<query, search_result, result, delays, hist, lastResp>>

(***************************************************************************)
(* SpecSearch: one direct call of search by a caller.                      *)
(***************************************************************************)
\* a query is named by a number (in the scheduler, the number of its request)
Queries == {1, 2}

Reqs == 1..MaxReq
NoReply == [st |-> "none", q |-> 0, val |-> NoResult]

\* the search variables when no search is running
SearchIdle ==
    /\ query = 0
    /\ page = 0
    /\ search_result = EmptyResult
    /\ result = NoResult
    /\ httpInFlight = 0
    /\ calls = <<>>
    /\ delays = 0
    /\ hist = <<>>
    /\ lastResp = NoResp

\* Scheduler::new, lines 41-59: the channel, the spawned task, one handle
SchedulerNew ==
    /\ running = FALSE
    /\ cancelled = FALSE
    /\ workers = 1
    /\ cur = 0
    /\ queue = <<>>
    /\ waiters = <<>>
    /\ sst = [r \in Reqs |-> "none"]
    /\ schedCount = 1
    /\ senderAlive = FALSE
    /\ reply = [r \in Reqs |-> NoReply]
    /\ rxAlive = [r \in Reqs |-> FALSE]
    /\ nextId = 0
    /\ enqOrder = <<>>
    /\ startOrder = <<>>
    /\ searches = [r \in Reqs |-> 0]
    /\ sends = [r \in Reqs |-> 0]
    /\ stopQueued = {}
    /\ lateEnq = {}
    /\ faults = 0

SearchInit ==
    /\ pc = "idle"
    /\ SearchIdle
    /\ SchedulerNew

DirectCall ==
    /\ pc = "idle"
    /\ \E qr \in Queries : SearchCall(qr)
    /\ pc' = "http"
    /\ UNCHANGED schedVars

DirectResponse ==
    /\ pc = "http"
    /\ \E resp \in Responses :
          /\ SearchOnResponse(resp)
          /\ pc' = IF SearchPage(search_result, page, resp).kind = "continue"
                      THEN "pagesleep" ELSE "returned"
    /\ UNCHANGED schedVars

DirectSleepDone ==
    /\ pc = "pagesleep"
    /\ SearchNextPage
    /\ pc' = "http"
    /\ UNCHANGED schedVars

SearchNext == DirectCall \/ DirectResponse \/ DirectSleepDone

SpecSearch == SearchInit /\ [][SearchNext]_vars

(***************************************************************************)
(* Spec: the scheduler. The worker is the task spawned by Scheduler::new   *)
(* (scheduler.rs:46-54):                                                   *)
(*                                                                         *)
(*     while let Some(req) = rx.recv().await {                             *)
(*         let res = task_api.search(req.query).await;                     *)
(*         if req.ret.send(res).is_err() { warn!(..) }                     *)
(*         sleep(Duration::from_millis(200)).await;                        *)
(*     }                                                                   *)
(*                                                                         *)
(* pc is the await the task is suspended at: "recv", "http" and            *)
(* "pagesleep" (inside search), "sleep"; "done" after the loop, "aborted"  *)
(* once the runtime has dropped the cancelled task. A poll of the task     *)
(* (running = TRUE) runs from one await to the next one that is pending.   *)
(* JoinHandle::abort only marks the task: a task that is suspended is      *)
(* dropped without running again, a task that is being polled is dropped   *)
(* when that poll reaches its next pending await.                          *)
(***************************************************************************)
Range(f) == {f[i] : i \in DOMAIN f}

\* the provider's answers to the worker's searches: two failures, a last page, and
\* a page that is followed by another
SchedResponses ==
    {TransportFailure, [transport |-> TRUE, status |-> 401, body |-> NoBody]}
    \cup {[transport |-> TRUE, status |-> 200,
           body |-> [kind |-> "json",
                     json |-> [balance |-> 1, entries |-> NoEntries,
                               success |-> TRUE, total |-> t]]] : t \in {0, PageSize}}

Init ==
    /\ pc = "recv"
    /\ SearchIdle
    /\ SchedulerNew

NoSenderMutIgnoresHandles == ~senderAlive

\* no Sender is left when every Scheduler handle and every Sender is dropped
NoSender == schedCount = 0 /\ ~senderAlive
RxDropped == pc \in {"done", "aborted"}
PendingSends == {r \in Reqs : sst[r] \in {"waiting", "granted"}}
PermitsMutOffByOne ==
    QueueCap + 1 - Len(queue) - Cardinality({r \in Reqs : sst[r] = "granted"})

\* the permits of the channel's semaphore that are free
Permits == QueueCap - Len(queue) - Cardinality({r \in Reqs : sst[r] = "granted"})

RecvMutLifo(qu) == [item |-> qu[Len(qu)], rest |-> SubSeq(qu, 1, Len(qu) - 1)]

RecvMutPeek(qu) == [item |-> Head(qu), rest |-> qu]

\* rx.recv() on a queue that holds a message: the oldest one is taken
Recv(qu) == [item |-> Head(qu), rest |-> Tail(qu)]

CanRecvMutSpawned == pc \in {"recv", "sleep", "http"}

\* the worker polls rx.recv() at the head of its loop: on its first poll or a
\* wake-up of recv, and when the pacing sleep is over
CanRecv == pc \in {"recv", "sleep"}

TaskReadyMutNoWake ==
    IF pc = "recv" THEN NoSender
    ELSE pc \in {"http", "pagesleep", "sleep"}

\* the event the suspended task waits for has happened: a message or the
\* channel's closing for recv; the response, the timer for the other awaits
TaskReady ==
    IF pc = "recv" THEN queue # <<>> \/ NoSender
    ELSE pc \in {"http", "pagesleep", "sleep"}

\* the runtime polls the task; a task marked cancelled is not polled again
TaskPoll ==
    /\ ~running
    /\ ~cancelled
    /\ TaskReady
    /\ running' = TRUE
    /\ UNCHANGED <<pc, searchVars, cancelled, workers, cur, chanVars, handleVars,
                   replyVars, histVars>>

\* lines 47-48, api.rs 293-301: recv is polled. A message: it is taken (the
\* permit goes to the first suspended send) and its search runs up to the
\* first request. No message and no Sender left: the loop ends. Otherwise the
\* task suspends in recv.
WorkerRecv ==
    /\ running
    /\ CanRecv
    /\ running' = FALSE
    /\ UNCHANGED <<cancelled, workers, handleVars, replyVars, nextId, enqOrder,
                   sends, stopQueued, lateEnq, faults>>
    /\ IF queue # <<>>
          THEN LET r == Recv(queue).item
               IN  /\ queue' = Recv(queue).rest
                   /\ IF waiters # <<>>
                         THEN /\ waiters' = Tail(waiters)
                              /\ sst' = [sst EXCEPT ![r] = "taken",
                                                    ![Head(waiters)] = "granted"]
                         ELSE /\ waiters' = waiters
                              /\ sst' = [sst EXCEPT ![r] = "taken"]
                   /\ cur' = r
                   /\ SearchCall(r)
                   /\ startOrder' = Append(startOrder, r)
                   /\ searches' = [searches EXCEPT ![r] = @ + 1]
                   /\ pc' = "http"
          ELSE /\ pc' = IF NoSender THEN "done" ELSE "recv"
               /\ UNCHANGED <<searchVars, cur, chanVars, startOrder, searches>>

RetSendMutOkOnly(alive, q, res) ==
    IF alive /\ res.ok
       THEN [st |-> "value", q |-> q, val |-> res]
       ELSE [st |-> "closed", q |-> 0, val |-> NoResult]

\* line 49, req.ret.send(res): the result, Ok or Err, goes to the receiver of
\* the request; with the receiver gone the send fails and the result is dropped
RetSend(alive, q, res) ==
    IF alive
       THEN [st |-> "value", q |-> q, val |-> res]
       ELSE [st |-> "closed", q |-> 0, val |-> NoResult]

OnSendResultMutBreak(sent) == IF sent THEN "sleep" ELSE "done"

OnSendResultMutNoSleep(sent) == IF sent THEN "sleep" ELSE "recv"

\* lines 49-52: a failed send is logged, and the task goes on to the pacing
\* sleep either way
OnSendResult(sent) == "sleep"

\* api.rs 301-321, scheduler.rs 49-52: the response is processed. Another page:
\* the task suspends in the inter-page sleep. Otherwise search returns, the
\* result is sent on req.ret (the send fails when the receiver is gone), req is
\* gone and the task suspends in the pacing sleep.
WorkerResponse ==
    /\ running
    /\ pc = "http"
    /\ running' = FALSE
    /\ UNCHANGED <<cancelled, workers, chanVars, handleVars, rxAlive, nextId,
                   enqOrder, startOrder, searches, stopQueued, lateEnq>>
    /\ \E resp \in SchedResponses :
          LET out == SearchPage(search_result, page, resp)
          IN  /\ out.kind = "err" => faults < MaxFaults
              /\ faults' = IF out.kind = "err" THEN faults + 1 ELSE faults
              /\ IF out.kind = "continue"
                     THEN /\ SearchOnResponse(resp)
                          /\ pc' = "pagesleep"
                          /\ UNCHANGED <<cur, reply, sends>>
                     ELSE /\ result' = SearchReturn(out)
                          /\ reply' = [reply EXCEPT ![cur] =
                                         RetSend(rxAlive[cur], query, result')]
                          /\ sends' = [sends EXCEPT ![cur] = @ + 1]
                          /\ cur' = 0
                          /\ query' = 0
                          /\ page' = 0
                          /\ search_result' = EmptyResult
                          /\ httpInFlight' = httpInFlight - 1
                          /\ calls' = <<>>
                          /\ delays' = 0
                          /\ hist' = <<>>
                          /\ lastResp' = NoResp
                          /\ pc' = OnSendResult(rxAlive[cur])

\* api.rs 321, 300-301: the inter-page sleep is over, the next page is requested
WorkerNextPage ==
    /\ running
    /\ pc = "pagesleep"
    /\ running' = FALSE
    /\ SearchNextPage
    /\ pc' = "http"
    /\ UNCHANGED <<cancelled, workers, cur, chanVars, handleVars, replyVars, histVars>>

\* the runtime drops the cancelled task at an await: its future goes, and with
\* it rx (the channel closes and the queued requests are dropped), req and the
\* request in flight; dropping a request drops the sending end of its reply
\* channel
TaskDrop ==
    /\ cancelled
    /\ ~running
    /\ ~RxDropped
    /\ pc' = "aborted"
    /\ queue' = <<>>
    /\ sst' = [r \in Reqs |-> IF r \in Range(queue) THEN "dropped" ELSE sst[r]]
    /\ reply' = [r \in Reqs |->
                   IF (r \in Range(queue) \/ r = cur) /\ reply[r].st = "open"
                      THEN [st |-> "closed", q |-> 0, val |-> NoResult]
                      ELSE reply[r]]
    /\ cur' = 0
    /\ query' = 0
    /\ page' = 0
    /\ search_result' = EmptyResult
    /\ result' = NoResult
    /\ httpInFlight' = 0
    /\ calls' = <<>>
    /\ delays' = 0
    /\ hist' = <<>>
    /\ lastResp' = NoResp
    /\ UNCHANGED <<running, cancelled, workers, waiters, handleVars, rxAlive, histVars>>

\* a caller makes a oneshot channel and a ScheduledRequest and sends it on a
\* Sender (tests.rs 30-39): the send fails when rx is gone, completes when a
\* permit is free, and suspends otherwise
Send ==
    /\ senderAlive
    /\ nextId < MaxReq
    /\ LET r == nextId + 1
       IN  /\ nextId' = r
           /\ rxAlive' = [rxAlive EXCEPT ![r] = TRUE]
           /\ IF RxDropped
                 THEN /\ sst' = [sst EXCEPT ![r] = "failed"]
                      /\ reply' = [reply EXCEPT ![r] =
                                     [st |-> "closed", q |-> 0, val |-> NoResult]]
                      /\ UNCHANGED <<queue, waiters, enqOrder, lateEnq>>
                 ELSE /\ reply' = [reply EXCEPT ![r] =
                                     [st |-> "open", q |-> 0, val |-> NoResult]]
                      /\ IF Permits > 0
                            THEN /\ queue' = Append(queue, r)
                                 /\ enqOrder' = Append(enqOrder, r)
                                 /\ lateEnq' = IF cancelled THEN lateEnq \cup {r}
                                                            ELSE lateEnq
                                 /\ sst' = [sst EXCEPT ![r] = "queued"]
                                 /\ waiters' = waiters
                            ELSE /\ waiters' = Append(waiters, r)
                                 /\ sst' = [sst EXCEPT ![r] = "waiting"]
                                 /\ UNCHANGED <<queue, enqOrder, lateEnq>>
    /\ UNCHANGED <<pc, searchVars, taskVars, handleVars, startOrder, searches,
                   sends, stopQueued, faults>>

\* a suspended send that was given a permit puts its request in the queue
SendComplete ==
    /\ ~RxDropped
    /\ \E r \in Reqs :
          /\ sst[r] = "granted"
          /\ queue' = Append(queue, r)
          /\ enqOrder' = Append(enqOrder, r)
          /\ lateEnq' = IF cancelled THEN lateEnq \cup {r} ELSE lateEnq
          /\ sst' = [sst EXCEPT ![r] = "queued"]
    /\ UNCHANGED <<pc, searchVars, taskVars, waiters, handleVars, replyVars, nextId,
                   startOrder, searches, sends, stopQueued, faults>>

\* a suspended send finds the channel closed: SendError, the request is dropped
SendFail ==
    /\ RxDropped
    /\ \E r \in PendingSends :
          /\ sst' = [sst EXCEPT ![r] = "failed"]
          /\ waiters' = SelectSeq(waiters, LAMBDA w : w # r)
          /\ reply' = [reply EXCEPT ![r] = [st |-> "closed", q |-> 0, val |-> NoResult]]
    /\ UNCHANGED <<pc, searchVars, taskVars, queue, handleVars, rxAlive, histVars>>

\* a caller drops the receiving end of its reply channel before a reply
DropReceiver ==
    /\ faults < MaxFaults
    /\ faults' = faults + 1
    /\ \E r \in Reqs :
          /\ reply[r].st = "open"
          /\ rxAlive[r]
          /\ rxAlive' = [rxAlive EXCEPT ![r] = FALSE]
    /\ UNCHANGED <<pc, searchVars, taskVars, chanVars, handleVars, reply, nextId,
                   enqOrder, startOrder, searches, sends, stopQueued, lateEnq>>

\* #[derive(Clone)] on Scheduler: the Arc and the Sender are cloned, no task is
\* spawned
CloneSchedulerWorkers == workers

CloneScheduler ==
    /\ schedCount > 0
    /\ schedCount < MaxClones
    /\ schedCount' = schedCount + 1
    /\ workers' = CloneSchedulerWorkers
    /\ UNCHANGED <<pc, searchVars, running, cancelled, cur, chanVars, senderAlive,
                   replyVars, histVars>>

\* retrieve_sender (lines 65-67): a first Sender outside the Scheduler handles
\* (further ones, and clones of them, change nothing)
RetrieveSender ==
    /\ schedCount > 0
    /\ ~senderAlive
    /\ senderAlive' = TRUE
    /\ UNCHANGED <<pc, searchVars, taskVars, chanVars, schedCount, replyVars, histVars>>

\* the last Sender outside the Scheduler handles is dropped; a suspended send
\* borrows a Sender
DropSender ==
    /\ senderAlive
    /\ PendingSends = {}
    /\ senderAlive' = FALSE
    /\ UNCHANGED <<pc, searchVars, taskVars, chanVars, schedCount, replyVars, histVars>>

\* a Scheduler handle is dropped without stop_scheduler: the task is detached
DropScheduler ==
    /\ schedCount > 0
    /\ schedCount' = schedCount - 1
    /\ UNCHANGED <<pc, searchVars, taskVars, chanVars, senderAlive, replyVars, histVars>>

\* JoinHandle::abort: marks the task cancelled unless it has finished
Abort == cancelled \/ ~RxDropped

\* stop_scheduler (lines 72-74): abort through the shared handle; self is
\* consumed
StopScheduler ==
    /\ schedCount > 0
    /\ schedCount' = schedCount - 1
    /\ cancelled' = Abort
    /\ stopQueued' = stopQueued \cup Range(queue)
    /\ UNCHANGED <<pc, searchVars, running, workers, cur, chanVars, senderAlive,
                   replyVars, nextId, enqOrder, startOrder, searches, sends, lateEnq,
                   faults>>

Next ==
    \/ TaskPoll
    \/ WorkerRecv
    \/ WorkerResponse
    \/ WorkerNextPage
    \/ TaskDrop
    \/ Send
    \/ SendComplete
    \/ SendFail
    \/ DropReceiver
    \/ CloneScheduler
    \/ RetrieveSender
    \/ DropSender
    \/ DropScheduler
    \/ StopScheduler

Spec == Init /\ [][Next]_vars

(***************************************************************************)
(* Claims about search (SpecSearch).                                       *)
(***************************************************************************)
\* what the claims call an entry that fails to parse
EntryFails(e) ==
    \/ ~ParseU64(e.id).ok
    \/ e.ip_address # "" /\ ~IpAddrFromStr(e.ip_address).ok

IsJson(resp) == resp.transport /\ resp.status = 200 /\ resp.body.kind = "json"

\* a page that fails, in the words of C7
PageFails(resp) ==
    \/ ~resp.transport
    \/ resp.status # 200
    \/ resp.body.kind # "json"
    \/ ~resp.body.json.success
    \/ \E i \in 1..Len(resp.body.json.entries.list) :
          EntryFails(resp.body.json.entries.list[i])

\* the first error of a failing page: the transport, then the status, then the
\* body, then the success flag, then the first entry that fails (its id first)
FirstError(resp) ==
    IF ~resp.transport THEN "ReqwestError"
    ELSE IF resp.status # 200
         THEN CASE resp.status = 302 -> "InvalidQuery"
                [] resp.status = 400 -> "RateLimited"
                [] resp.status = 401 -> "Unauthorized"
                [] OTHER -> "Unknown"
    ELSE IF resp.body.kind = "readfail" THEN "ReqwestError"
    ELSE IF resp.body.kind # "json" THEN "Unknown"
    ELSE IF ~resp.body.json.success THEN "Unknown"
    ELSE LET l == resp.body.json.entries.list
             bad == {i \in 1..Len(l) : EntryFails(l[i])}
             first == CHOOSE i \in bad : \A j \in bad : i <= j
         IN  IF ParseU64(l[first].id).ok THEN "ParseAddrError" ELSE "ParseIntError"

Received == lastResp # NoResp /\ pc # "http"

\* C7: when a page of a search fails, search returns that page's first error and
\* nothing else: the result is an Err without entries, no further page has been
\* requested (the calls are those of pages 1..page, one each, none in flight)
\* and no delay was started after the failure; and search returns Ok only when
\* its last page did not fail.
C7_ErrorsTerminal ==
    /\ (Received /\ PageFails(lastResp)) =>
          /\ pc = "returned"
          /\ result = Err(FirstError(lastResp))
          /\ result.val.entries = <<>>
          /\ Len(calls) = page
          /\ \A i \in 1..Len(calls) : calls[i].page = i
          /\ httpInFlight = 0
          /\ delays = page - 1
    /\ (pc = "returned" /\ result.ok) => ~PageFails(lastResp)

\* a second page fails after a first page that delivered entries
C7_Witness ==
    /\ pc = "returned"
    /\ page = 2
    /\ PageFails(lastResp)
    /\ IsJson(lastResp)
    /\ lastResp.body.json.success
    /\ ~result.ok

RECURSIVE NormalizedConcat(_)
\* the normalized entries of the pages of h, page after page
NormalizedConcat(h) ==
    IF h = <<>> THEN <<>>
    ELSE NormalizedConcat(SubSeq(h, 1, Len(h) - 1))
         \o [i \in 1..Len(h[Len(h)].list) |-> TryFromEntry(h[Len(h)].list[i]).v]

\* C8: a search whose pages all succeed returns the normalized entries of its
\* pages in page order and, within a page, in the provider's order, and the
\* balance of the last page.
C8_Aggregation ==
    (pc = "returned" /\ result.ok) =>
        /\ Len(hist) = page
        /\ result.val.entries = NormalizedConcat(hist)
        /\ result.val.balance = lastResp.body.json.balance

\* two pages, the first with two different entries, and different balances
C8_Witness ==
    /\ pc = "returned"
    /\ result.ok
    /\ Len(hist) = 2
    /\ hist[1].list = <<EntryB, EntryA>>
    /\ hist[2].list = <<EntryA>>
    /\ result.val.balance = 1
    /\ Len(result.val.entries) = 3

FirstPageOk ==
    /\ Received
    /\ page = 1
    /\ ~PageFails(lastResp)

\* C9 as stated: after a successful first page with total <= 10000 search has
\* returned, with one call and no delay.
C9_SinglePage ==
    (FirstPageOk /\ lastResp.body.json.total <= PageSize) =>
        /\ pc = "returned"
        /\ Len(calls) = 1
        /\ delays = 0

\* C10: the outcome of a page is decided by its status and body as the table
\* says: 302 InvalidQuery, 400 RateLimited, 401 Unauthorized, 200 with a body
\* that is no Response Unknown, 200 with success = false Unknown, any other
\* status Unknown; only 200 with a parsed body and success = true adds a page to
\* the result.
C10_Classification ==
    Received =>
        /\ (lastResp.transport /\ lastResp.status = 302) => result = Err("InvalidQuery")
        /\ (lastResp.transport /\ lastResp.status = 400) => result = Err("RateLimited")
        /\ (lastResp.transport /\ lastResp.status = 401) => result = Err("Unauthorized")
        /\ (lastResp.transport /\ lastResp.status \notin {200, 302, 400, 401})
              => result = Err("Unknown")
        /\ (lastResp.transport /\ lastResp.status = 200 /\ lastResp.body.kind = "garbage")
              => result = Err("Unknown")
        /\ (IsJson(lastResp) /\ ~lastResp.body.json.success) => result = Err("Unknown")
        /\ (hist # <<>> \/ result.ok)
              => (IsJson(lastResp) /\ lastResp.body.json.success)

\* a status outside the table's named ones has been answered with Unknown
C10_Witness ==
    /\ Received
    /\ lastResp.status = 404
    /\ result = Err("Unknown")

(***************************************************************************)
(* Claims about the scheduler (Spec)                                       *)
(***************************************************************************)
\* the requests the worker has taken whose reply channel is still undecided
InProgress == {r \in Range(startOrder) : reply[r].st = "open"}

\* C1: single-flight. Whatever the producers do (cloned handles, a retrieved
\* Sender), there is one worker, at most one scheduled search is in progress
\* and at most one request of the worker is in flight; when the worker starts
\* a search, the search of every request it took before has returned and its
\* reply has been attempted.
C1_SingleFlight ==
    /\ workers = 1
    /\ Cardinality(InProgress) <= 1
    /\ httpInFlight <= 1
    /\ \A i \in 1..(Len(startOrder) - 1) :
          /\ sends[startOrder[i]] >= 1
          /\ startOrder[i] # cur
    /\ cur # 0 => /\ startOrder # <<>>
                  /\ cur = startOrder[Len(startOrder)]
                  /\ sends[cur] = 0

\* two producers' ends exist, a second search is in flight after the first was
\* answered, and more requests wait
C1_Witness ==
    /\ Len(startOrder) >= 2
    /\ httpInFlight = 1
    /\ sends[startOrder[1]] = 1
    /\ queue # <<>>
    /\ schedCount = MaxClones
    /\ senderAlive

\* C2: FIFO dispatch. The worker starts the requests in the order in which
\* their sends completed on the queue: the started requests are a prefix of
\* the enqueue order, and until the task is dropped the queue is exactly the
\* rest of that order (nothing is overtaken, nothing is skipped).
C2_Fifo ==
    /\ Len(startOrder) <= Len(enqOrder)
    /\ startOrder = SubSeq(enqOrder, 1, Len(startOrder))
    /\ pc # "aborted" =>
          queue = SubSeq(enqOrder, Len(startOrder) + 1, Len(enqOrder))

\* more requests than the queue holds were started in order: the last one's
\* send had to wait for a permit
C2_Witness ==
    /\ Len(startOrder) > QueueCap
    /\ \A i \in 1..Len(startOrder) : startOrder[i] = enqOrder[i]
    /\ sends[startOrder[QueueCap]] = 1

\* what holds of every request at every time: a request is searched at most
\* once, at most one reply send is attempted, and a delivered value is the
\* result of the search of that request's own query
AtMostOnce ==
    \A r \in Reqs :
       /\ searches[r] <= 1
       /\ sends[r] <= searches[r]
       /\ searches[r] = 1 <=> r \in Range(startOrder)
       /\ reply[r].st = "value" => reply[r].q = r /\ sends[r] = 1

\* C3 as stated: every request the worker took is searched exactly once and,
\* once the worker is done with it, exactly one reply send was attempted; no
\* second reply, no reply on another request's channel.
C3_ExactlyOnce ==
    /\ AtMostOnce
    /\ \A r \in Range(startOrder) : r # cur => sends[r] = 1

\* C3, amended: as above, except that the request whose search is cut short by
\* stop_scheduler gets no reply attempt at all: its reply channel is closed
\* without a value. It is the last request the worker took.
C3_ExactlyOnceUnlessStopped ==
    /\ AtMostOnce
    /\ \A r \in Range(startOrder) :
          r # cur =>
             \/ sends[r] = 1
             \/ /\ sends[r] = 0
                /\ pc = "aborted"
                /\ r = startOrder[Len(startOrder)]
                /\ reply[r].st = "closed"

\* one request was answered with its value, a later one was cut short by the
\* stop
C3_Witness ==
    /\ pc = "aborted"
    /\ \E r1, r2 \in Range(startOrder) :
          /\ reply[r1].st = "value"
          /\ sends[r1] = 1
          /\ sends[r2] = 0
          /\ reply[r2].st = "closed"

\* C4 as stated: a request that waited in the queue when stop_scheduler was
\* called is never searched, no value is delivered on its reply channel, and
\* once the task is gone its receiver sees a closed channel.
C4_StopAbandonsQueued ==
    \A r \in stopQueued :
       /\ searches[r] = 0
       /\ reply[r].st # "value"
       /\ pc = "aborted" => reply[r].st = "closed"

\* What the abort does guarantee for the requests queued at a stop: no reply
\* send is attempted for them, no value is delivered, and their receivers see
\* a closed channel once the task is gone; at most one of them is taken, by
\* the poll that was under way, and only the first request of its search is
\* issued.
QueuedAtStopUnanswered ==
    /\ \A r \in stopQueued :
          /\ sends[r] = 0
          /\ reply[r].st # "value"
          /\ pc = "aborted" => reply[r].st = "closed"
          /\ r = cur => pc = "http" /\ page = 1 /\ Len(calls) = 1 /\ ~running
    /\ Cardinality({r \in stopQueued : searches[r] = 1}) <= 1

\* the worker is Stopped: it was aborted through some Scheduler handle
Stopped == cancelled

\* Stopped is never left, and the task that was dropped never runs again
StoppedForGood ==
    /\ Stopped => Stopped'
    /\ pc = "aborted" => /\ pc' = "aborted"
                         /\ startOrder' = startOrder
                         /\ sends' = sends
                         /\ queue' = <<>>

\* C5 as stated: the clones share one worker and one queue; after a
\* stop_scheduler through any clone no request that is enqueued afterwards
\* (through another clone or a retrieved Sender) is processed, and Stopped is
\* never left.
C5_SharedWorker ==
    /\ [](workers = 1)
    /\ [](\A r \in lateEnq : searches[r] = 0 /\ sends[r] = 0)
    /\ [][StoppedForGood]_vars

\* What does hold after a stop for the requests enqueued later: no reply send
\* is attempted for them and no value is delivered; with the requests queued
\* at the stop, at most one of them is taken.
EnqueuedAfterStopUnanswered ==
    /\ \A r \in lateEnq :
          /\ sends[r] = 0
          /\ reply[r].st # "value"
          /\ pc = "aborted" => reply[r].st = "closed"
          /\ r = cur => pc = "http" /\ page = 1 /\ Len(calls) = 1 /\ ~running
    /\ Cardinality({r \in lateEnq \cup stopQueued : searches[r] = 1}) <= 1

\* the queue never holds more than its capacity, and a send is suspended only
\* when no permit is free
Bounded ==
    /\ Len(queue) <= QueueCap
    /\ ~RxDropped =>
          /\ Permits >= 0
          /\ (\E r \in Reqs : sst[r] = "waiting") => Permits = 0
    /\ \A r \in PendingSends : r \notin Range(queue)

\* the queue changes only by a send completing at its tail, by the worker
\* taking its head, or by the drop of the whole queue with the task
QueueSteps ==
    \/ queue' = queue
    \/ \E r \in Reqs : queue' = Append(queue, r) /\ sst'[r] = "queued"
    \/ queue # <<>> /\ queue' = Tail(queue) /\ cur' = Head(queue)
    \/ pc' = "aborted" /\ queue' = <<>>

\* a suspended send stays suspended until the worker takes a request, and
\* then it completes
SuspendedSteps ==
    \A r \in Reqs :
       /\ sst[r] = "waiting" =>
             \/ sst'[r] = "waiting"
             \/ sst'[r] = "granted" /\ startOrder' # startOrder
       /\ sst[r] = "granted" =>
             \/ sst'[r] = "granted"
             \/ sst'[r] = "queued" /\ queue' = Append(queue, r)

\* the same, or the send fails because the worker's end of the queue is gone
SuspendedOrFailedSteps ==
    \A r \in Reqs :
       /\ sst[r] = "waiting" =>
             \/ sst'[r] = "waiting"
             \/ sst'[r] = "granted" /\ startOrder' # startOrder
             \/ sst'[r] = "failed" /\ RxDropped /\ reply'[r].st = "closed"
       /\ sst[r] = "granted" =>
             \/ sst'[r] = "granted"
             \/ sst'[r] = "queued" /\ queue' = Append(queue, r)
             \/ sst'[r] = "failed" /\ RxDropped /\ reply'[r].st = "closed"

\* C6 as stated: at most 5 requests wait in the queue; a send that would
\* exceed the capacity does not enqueue and stays suspended until the worker
\* has taken a request, after which it completes; no enqueued request is
\* dropped or overwritten because the queue was full.
C6_Backpressure ==
    /\ []Bounded
    /\ [][QueueSteps]_vars
    /\ [][SuspendedSteps]_vars

\* C6, amended: the same, except that a suspended send ends with an error,
\* its request never enqueued, when the worker has ended or was stopped.
C6_BackpressureOrClosed ==
    /\ []Bounded
    /\ [][QueueSteps]_vars
    /\ [][SuspendedOrFailedSteps]_vars

\* the queue was full, the worker took a request, and the send that was
\* suspended holds the permit with which it will complete
C6_Witness ==
    /\ \E r \in Reqs : sst[r] = "granted"
    /\ Len(queue) = QueueCap - 1
    /\ Len(startOrder) >= 1

\* the worker's end of the queue goes only with a stop or with the last Sender
ClosedOnlyByStopOrSenders ==
    /\ pc = "done" => NoSender /\ queue = <<>>
    /\ pc = "aborted" => cancelled

\* the step in which the worker attempts the reply of request r
ReplyStep(r) == sends'[r] = sends[r] + 1

\* a reply channel that was used or closed never changes again
RepliesFinal ==
    \A r \in Reqs : reply[r].st \in {"value", "closed"} => reply'[r] = reply[r]

\* C11: the value delivered for a request is the Result search returned for
\* that request's query, an Err as well as an Ok; the reply step leaves the
\* worker in its loop (the pacing sleep is next), the queue as it was and the
\* reply of every other request untouched; the worker's end of the queue is
\* closed only by a stop or by the drop of the last Sender, never by an error.
C11_ErrorsDelivered ==
    /\ [](\A r \in Reqs : reply[r].st = "value" =>
             /\ sends[r] = 1
             /\ reply[r].q = r
             /\ reply[r].val # NoResult
             /\ rxAlive[r])
    /\ []ClosedOnlyByStopOrSenders
    /\ [][\A r \in Reqs : ReplyStep(r) =>
             /\ r = cur
             /\ result' # NoResult
             /\ rxAlive[r] => reply'[r] = [st |-> "value", q |-> r, val |-> result']
             /\ pc' = "sleep"
             /\ queue' = queue
             /\ cancelled' = cancelled
             /\ \A r2 \in Reqs \ {r} : reply'[r2] = reply[r2]]_vars
    /\ [][RepliesFinal]_vars

\* an Err was delivered to one request, and the next request got its Ok
C11_Witness ==
    \E i \in 1..(Len(startOrder) - 1) :
       /\ reply[startOrder[i]].st = "value"
       /\ ~reply[startOrder[i]].val.ok
       /\ reply[startOrder[i]].val.err = "Unauthorized"
       /\ reply[startOrder[i + 1]].st = "value"
       /\ reply[startOrder[i + 1]].val.ok

\* C12: when the receiver of a request is gone before the worker replies, the
\* result is dropped (the channel is closed without a value), and the failed
\* send changes nothing else: the worker goes to the pacing sleep, the queue,
\* the suspended sends and the other replies are as before, nothing is
\* cancelled; every request replied to with a live receiver has its value.
C12_AbandonedReceiver ==
    /\ [](\A r \in Reqs :
             sends[r] = 1 =>
                reply[r].st = IF rxAlive[r] THEN "value" ELSE "closed")
    /\ [][\A r \in Reqs : (ReplyStep(r) /\ ~rxAlive[r]) =>
             /\ reply'[r].st = "closed"
             /\ pc' = "sleep"
             /\ ~RxDropped'
             /\ queue' = queue
             /\ sst' = sst
             /\ cancelled' = cancelled
             /\ \A r2 \in Reqs \ {r} : reply'[r2] = reply[r2]]_vars

\* the reply of an abandoned request was dropped, and the request queued
\* behind it has got its value
C12_Witness ==
    \E i \in 1..(Len(startOrder) - 1) :
       /\ sends[startOrder[i]] = 1
       /\ ~rxAlive[startOrder[i]]
       /\ reply[startOrder[i]].st = "closed"
       /\ reply[startOrder[i + 1]].st = "value"

(***************************************************************************)
(* SpecPure: the pure functions. A text is the sequence of its characters. *)
(* query holds the input (a leaf text, a SearchType, a Query or an Entry), *)
(* result the value the function returned.                                 *)
(***************************************************************************)
\* api.rs 19-22
RESERVED ==
    {"+", "-", "=", "&", "|", ">", "<", "!", "(", ")", "{", "}", "[", "]", "^",
     "\"", "~", "*", "?", ":", "\\"}

\* characters that are not reserved
Plain == {"a", "b", ".", " ", "/"}

Alphabet == RESERVED \cup Plain

Texts == SeqsUpTo(Alphabet, MaxText)

escapeCharMutNoBackslash(c) == <<c>>

\* lines 27-31: what one character of q adds to s
escapeChar(c) == IF c \in RESERVED THEN <<"\\", c>> ELSE <<c>>

RECURSIVE escape(_)
\* lines 24-34
escape(q) == IF q = <<>> THEN <<>> ELSE escapeChar(Head(q)) \o escape(Tail(q))

RECURSIVE joinMutTrailing(_, _)
joinMutTrailing(l, sep) ==
    IF l = <<>> THEN <<>> ELSE l[1] \o sep \o joinMutTrailing(Tail(l), sep)

RECURSIVE join(_, _)
\* [String]::join: the strings of l with sep between them
join(l, sep) ==
    IF l = <<>> THEN <<>>
    ELSE IF Len(l) = 1 THEN l[1]
    ELSE l[1] \o sep \o join(Tail(l), sep)

Simple(x) == [kind |-> "Simple", text |-> x, list |-> <<>>]
Exact(x) == [kind |-> "Exact", text |-> x, list |-> <<>>]
Regex(x) == [kind |-> "Regex", text |-> x, list |-> <<>>]
Or(x) == [kind |-> "Or", text |-> <<>>, list |-> x]
And(x) == [kind |-> "And", text |-> <<>>, list |-> x]

OrSepMutBare == <<"O", "R">>

\* line 62
OrSep == <<" ", "O", "R", " ">>

\* line 67
AndSep == <<" ">>

RECURSIVE SearchType_to_string(_)
\* impl ToString for SearchType, lines 52-70
SearchType_to_string(self) ==
    CASE self.kind = "Simple" -> escape(self.text)
      [] self.kind = "Exact" -> <<"\"">> \o escape(self.text) \o <<"\"">>
      [] self.kind = "Regex" -> <<"/">> \o escape(self.text) \o <<"/">>
      [] self.kind = "Or" ->
            join([i \in 1..Len(self.list) |-> SearchType_to_string(self.list[i])],
                 OrSep)
      [] self.kind = "And" ->
            join([i \in 1..Len(self.list) |-> SearchType_to_string(self.list[i])],
                 AndSep)

\* impl ToString for Query, lines 98-113: the text before the colon
FieldName(variant) ==
    CASE variant = "Email" ->
            <<"e", "m", "a", "i", "l">>
      [] variant = "IpAddress" ->
            <<"i", "p", "_", "a", "d", "d", "r", "e", "s", "s">>
      [] variant = "Username" ->
            <<"u", "s", "e", "r", "n", "a", "m", "e">>
      [] variant = "Password" ->
            <<"p", "a", "s", "s", "w", "o", "r", "d">>
      [] variant = "HashedPassword" ->
            <<"h", "a", "s", "h", "e", "d", "_", "p", "a", "s", "s", "w", "o", "r", "d">>
      [] variant = "Name" ->
            <<"n", "a", "m", "e">>
      [] variant = "Domain" ->
            <<"d", "o", "m", "a", "i", "n">>
      [] variant = "Vin" ->
            <<"v", "i", "n">>
      [] variant = "Phone" ->
            <<"p", "h", "o", "n", "e">>
      [] variant = "Address" ->
            <<"a", "d", "d", "r", "e", "s", "s">>

Variants ==
    {"Email", "IpAddress", "Username", "Password", "HashedPassword", "Name",
     "Domain", "Vin", "Phone", "Address"}

\* impl ToString for Query, lines 98-113
Query_to_string(self) ==
    FieldName(self.variant) \o <<":">> \o SearchType_to_string(self.st)

\* the leaves of the composite inputs: each kind, a reserved character among
\* the texts
Leaves == {Simple(<<"a">>), Exact(<<"b">>), Regex(<<"+">>)}

LeafLists == SeqsUpTo(Leaves, MaxList)

Node(op, l) == IF op = "Or" THEN Or(l) ELSE And(l)

\* op1(xs ++ [op2(ys)] ++ zs)
Nest(op1, op2, xs, ys, zs) == Node(op1, xs \o <<Node(op2, ys)>> \o zs)

ExampleCom == <<"e", "x", "a", "m", "p", "l", "e", ".", "c", "o", "m">>

\* the inputs of the pure functions
APlusB == <<"a", "+", "b">>

TextInputs == {[kind |-> "text", text |-> t] : t \in Texts \cup {APlusB}}

StInputs ==
    {[kind |-> "st", st |-> Nest(op1, op2, xs, ys, zs),
      op1 |-> op1, op2 |-> op2, xs |-> xs, ys |-> ys, zs |-> zs] :
        op1 \in {"Or", "And"}, op2 \in {"Or", "And"},
        xs \in LeafLists, ys \in LeafLists, zs \in SeqsUpTo(Leaves, 1)}

QueryInputs ==
    {[kind |-> "query", variant |-> v, st |-> t] :
        v \in Variants,
        t \in Leaves \cup {Simple(ExampleCom)}
              \cup {Node(op, l) : op \in {"Or", "And"}, l \in LeafLists}}

\* res.rs 3-16: entries whose fields are empty or not, with ids and addresses
\* that parse and that do not
Entries ==
    [id : {"5", "7", "x", ""}, ip_address : {"", "1.2.3.4", "::1", "not-an-ip"},
     email : {"", "a@b.c"}, username : {"", "u"}, password : {"", "p"},
     hashed_password : {"", "h"}, name : {"", "n"}, vin : {"", "v"},
     address : {"", "s"}, phone : {"", "t"}, database_name : {"", "d"}]

EntryInputs == {[kind |-> "entry", entry |-> e] : e \in Entries}

PureInit ==
    /\ pc = "input"
    /\ query \in TextInputs \cup StInputs \cup QueryInputs \cup EntryInputs
    /\ page = 0
    /\ search_result = EmptyResult
    /\ result = NoResult
    /\ httpInFlight = 0
    /\ calls = <<>>
    /\ delays = 0
    /\ hist = <<>>
    /\ lastResp = NoResp
    /\ SchedulerNew

PureUnchanged ==
    UNCHANGED <<query, page, search_result, httpInFlight, calls, delays, hist,
                lastResp, schedVars>>

Escape ==
    /\ pc = "input"
    /\ query.kind = "text"
    /\ result' = escape(query.text)
    /\ pc' = "returned"
    /\ PureUnchanged

RenderSearchType ==
    /\ pc = "input"
    /\ query.kind = "st"
    /\ result' = SearchType_to_string(query.st)
    /\ pc' = "returned"
    /\ PureUnchanged

RenderQuery ==
    /\ pc = "input"
    /\ query.kind = "query"
    /\ result' = Query_to_string(query)
    /\ pc' = "returned"
    /\ PureUnchanged

Normalize ==
    /\ pc = "input"
    /\ query.kind = "entry"
    /\ result' = TryFromEntry(query.entry)
    /\ pc' = "returned"
    /\ PureUnchanged

PureNext == Escape \/ RenderSearchType \/ RenderQuery \/ Normalize

SpecPure == PureInit /\ [][PureNext]_vars

(***************************************************************************)
(* Claims about the pure functions (SpecPure)                              *)
(***************************************************************************)
\* the reserved characters as C13 lists them
ReservedOfClaim ==
    {"+", "-", "=", "&", "|", ">", "<", "!", "(", ")", "{", "}", "[", "]", "^",
     "\"", "~", "*", "?", ":"} \cup {"\\"}

\* the number of reserved characters among the first n characters of t
ReservedBefore(t, n) == Cardinality({j \in 1..n : t[j] \in ReservedOfClaim})

\* C13: the rendering of a leaf text is the text with a backslash put before
\* each occurrence of one of the 21 reserved characters and nothing else
\* changed: character i of the text stands at position i plus the number of
\* reserved characters before it (one further if it is reserved itself, the
\* backslash taking its place), and the length grows by the number of reserved
\* characters.
C13_Escaping ==
    (pc = "returned" /\ query.kind = "text") =>
        LET t == query.text
            o == result
        IN  /\ Cardinality(ReservedOfClaim) = 21
            /\ Len(o) = Len(t) + ReservedBefore(t, Len(t))
            /\ \A i \in 1..Len(t) :
                  LET at == i + ReservedBefore(t, i - 1)
                  IN  IF t[i] \in ReservedOfClaim
                         THEN o[at] = "\\" /\ o[at + 1] = t[i]
                         ELSE o[at] = t[i]

\* a+b has been rendered as a\+b
C13_Witness ==
    /\ pc = "returned"
    /\ query.kind = "text"
    /\ query.text = APlusB
    /\ result = <<"a", "\\", "+", "b">>

\* the table of C14: the field name of each variant
FieldOfClaim ==
    [Email |-> <<"e", "m", "a", "i", "l">>,
     IpAddress |-> <<"i", "p", "_", "a", "d", "d", "r", "e", "s", "s">>,
     Username |-> <<"u", "s", "e", "r", "n", "a", "m", "e">>,
     Password |-> <<"p", "a", "s", "s", "w", "o", "r", "d">>,
     HashedPassword |-> <<"h", "a", "s", "h", "e", "d", "_", "p", "a", "s", "s", "w", "o", "r", "d">>,
     Name |-> <<"n", "a", "m", "e">>,
     Domain |-> <<"d", "o", "m", "a", "i", "n">>,
     Vin |-> <<"v", "i", "n">>,
     Phone |-> <<"p", "h", "o", "n", "e">>,
     Address |-> <<"a", "d", "d", "r", "e", "s", "s">>]

RECURSIVE JoinL(_, _)
\* the texts of l with sep between each two neighbours, built from the left
JoinL(l, sep) ==
    IF l = <<>> THEN <<>>
    ELSE IF Len(l) = 1 THEN l[1]
    ELSE JoinL(SubSeq(l, 1, Len(l) - 1), sep) \o sep \o l[Len(l)]

RECURSIVE Rendering(_)
\* the rendering of a SearchType in the words of C14
Rendering(t) ==
    CASE t.kind = "Simple" -> escape(t.text)
      [] t.kind = "Exact" -> <<"\"">> \o escape(t.text) \o <<"\"">>
      [] t.kind = "Regex" -> <<"/">> \o escape(t.text) \o <<"/">>
      [] t.kind = "Or" ->
            JoinL([i \in 1..Len(t.list) |-> Rendering(t.list[i])],
                  <<" ", "O", "R", " ">>)
      [] t.kind = "And" ->
            JoinL([i \in 1..Len(t.list) |-> Rendering(t.list[i])], <<" ">>)

\* C14: a Query renders as the field name of its variant (each variant its own
\* name), a colon, and the rendering of its SearchType: the escaped text for
\* Simple, in double quotes for Exact, in slashes for Regex, the children's
\* renderings joined by " OR " for Or and by one space for And.
C14_CompositeRendering ==
    /\ \A v, w \in Variants : FieldOfClaim[v] = FieldOfClaim[w] => v = w
    /\ (pc = "returned" /\ query.kind = "query") =>
          result = FieldOfClaim[query.variant] \o <<":">> \o Rendering(query.st)
    /\ (pc = "returned" /\ query.kind = "st") => result = Rendering(query.st)

\* Email(Or([Simple(a), Exact(b)])) has been rendered as email:a OR "b"
C14_Witness ==
    /\ pc = "returned"
    /\ query.kind = "query"
    /\ query.variant = "Email"
    /\ query.st = Or(<<Simple(<<"a">>), Exact(<<"b">>)>>)
    /\ result = <<"e", "m", "a", "i", "l", ":", "a", " ", "O", "R", " ", "\"", "b", "\"">>

\* an id that is an unsigned integer, and its value
IdParses(s) == s \in {"5", "7", "9"}
IdValue(s) == CASE s = "5" -> 5 [] s = "7" -> 7 [] s = "9" -> 9

\* an address that is a valid IP address
IpValid(s) == s \in {"1.2.3.4", "::1"}

OptionalFields ==
    {"email", "username", "password", "hashed_password", "ip_address", "name",
     "vin", "address", "phone", "database_name"}

Normalized == pc = "returned" /\ query.kind = "entry"

\* what C15 says of success: when it happens and what it yields
NormalizeSuccess ==
    LET e == query.entry
    IN  /\ result.ok <=> (IdParses(e.id) /\ (e.ip_address = "" \/ IpValid(e.ip_address)))
        /\ result.ok =>
              /\ result.v.id = IdValue(e.id)
              /\ DOMAIN result.v = OptionalFields \cup {"id"}
              /\ \A f \in OptionalFields :
                    /\ ~result.v[f].some <=> e[f] = ""
                    /\ e[f] # "" => result.v[f] = Some(e[f])

\* C15 as stated: success iff the id is an unsigned integer and the address
\* is empty or valid; on success each optional field is absent iff its wire
\* value is empty and holds the wire value otherwise; a malformed id yields
\* the int-parse error, a non-empty invalid address the address-parse error.
C15_Normalization ==
    Normalized =>
        LET e == query.entry
        IN  /\ NormalizeSuccess
            /\ ~IdParses(e.id) => ~result.ok /\ result.err = "ParseIntError"
            /\ (e.ip_address # "" /\ ~IpValid(e.ip_address)) =>
                  ~result.ok /\ result.err = "ParseAddrError"

\* C15, amended: the same, the address-parse error being the outcome of a
\* non-empty invalid address only when the id parses; a malformed id yields
\* the int-parse error whatever the address is.
C15_NormalizationIdFirst ==
    Normalized =>
        LET e == query.entry
        IN  /\ NormalizeSuccess
            /\ ~IdParses(e.id) => ~result.ok /\ result.err = "ParseIntError"
            /\ (IdParses(e.id) /\ e.ip_address # "" /\ ~IpValid(e.ip_address)) =>
                  ~result.ok /\ result.err = "ParseAddrError"

\* an entry with id 5, an invalid address and other fields set has failed
\* with the address-parse error
C15_Witness ==
    /\ Normalized
    /\ query.entry.id = "5"
    /\ query.entry.ip_address = "not-an-ip"
    /\ query.entry.email # ""
    /\ ~result.ok
    /\ result.err = "ParseAddrError"

\* an Or directly inside an Or, or an And directly inside an And
SameOpNest == pc = "returned" /\ query.kind = "st" /\ query.op1 = query.op2

\* the flattened composite: op(xs ++ ys ++ zs)
Flattened == Node(query.op1, query.xs \o query.ys \o query.zs)

\* C20 as stated: for all lists xs, ys, zs, empty ones included,
\* op(xs ++ [op(ys)] ++ zs) renders as op(xs ++ ys ++ zs), for Or and for And.
C20_AssociativeJoin ==
    SameOpNest => result = SearchType_to_string(Flattened)

\* C20, amended: the same for a nested list ys that is not empty, and for an
\* empty ys when xs and zs are empty; an empty Or or And next to other
\* children renders as an empty text between two separators, which the
\* flattened composite does not have.
C20_AssociativeJoinNonEmpty ==
    /\ (SameOpNest /\ (query.ys # <<>> \/ query.xs \o query.zs = <<>>)) =>
          result = SearchType_to_string(Flattened)
    /\ (SameOpNest /\ query.ys = <<>> /\ query.xs \o query.zs # <<>>) =>
          /\ result # SearchType_to_string(Flattened)
          /\ Len(result) > Len(SearchType_to_string(Flattened))

\* Or([Simple(a), Or([Exact(b), Regex(+)]), Simple(a)]) has been rendered as
\* the flattened Or of the four leaves
C20_Witness ==
    /\ SameOpNest
    /\ query.op1 = "Or"
    /\ query.xs = <<Simple(<<"a">>)>>
    /\ query.ys = <<Exact(<<"b">>), Regex(<<"+">>)>>
    /\ query.zs = <<Simple(<<"a">>)>>
    /\ result = SearchType_to_string(Flattened)
    /\ Len(result) = 21

(***************************************************************************)
(* SpecSearchNoTokio: one direct call of search in a build without the     *)
(* feature "tokio". The sleep of api.rs:320-321 is compiled only with that *)
(* feature; without it the loop goes from a page straight to the request   *)
(* of the next one.                                                        *)
(***************************************************************************)
\* lines 301-318 and, for another page, 300-301 of the next iteration
SearchOnResponseNoSleep(resp) ==
    LET out == SearchPage(search_result, page, resp)
    IN  IF out.kind = "continue"
           THEN /\ lastResp' = resp
                /\ search_result' = out.sr
                /\ hist' = Append(hist, resp.body.json.entries)
                /\ page' = page + 1
                /\ calls' = Append(calls, [size |-> PageSize, page |-> page + 1,
                                           query |-> query])
                /\ UNCHANGED <<query, result, httpInFlight, delays>>
           ELSE SearchOnResponse(resp)

DirectResponseNoSleep ==
    /\ pc = "http"
    /\ \E resp \in Responses :
          /\ SearchOnResponseNoSleep(resp)
          /\ pc' = IF SearchPage(search_result, page, resp).kind = "continue"
                      THEN "http" ELSE "returned"
    /\ UNCHANGED schedVars

NoTokioNext == DirectCall \/ DirectResponseNoSleep

SpecSearchNoTokio == SearchInit /\ [][NoTokioNext]_vars

(***************************************************************************)
(* Claims about the pagination of search                                   *)
(***************************************************************************)
\* the page whose response search has processed last was processed with
\* success; it is page `page` while search sleeps or has returned, and the
\* page before while the next request is in flight
LastPageOk == lastResp # NoResp /\ ~PageFails(lastResp)

\* C16: the requests of a search are those of pages 1, 2, ... in order, each
\* with size 10000 and the query of the search; after a page p processed with
\* success search has returned iff the page's total < p * 10000, and otherwise
\* it performs one delay (delays counts p of them while it sleeps) and then
\* requests page p + 1 (p delays lie before the request of page p + 1); a
\* final or failed page is followed by no delay.
C16_PaginationStep ==
    /\ \A i \in 1..Len(calls) :
          calls[i] = [size |-> 10000, page |-> i, query |-> query]
    /\ pc \in {"http", "pagesleep", "returned"} => Len(calls) = page
    /\ pc = "http" => delays = page - 1 /\ httpInFlight = 1
    /\ pc = "pagesleep" =>
          /\ LastPageOk
          /\ lastResp.body.json.total >= page * 10000
          /\ delays = page
          /\ httpInFlight = 0
    /\ pc = "returned" =>
          /\ delays = page - 1
          /\ httpInFlight = 0
          /\ LastPageOk => lastResp.body.json.total < page * 10000
          /\ LastPageOk <=> result.ok
    /\ (pc = "http" /\ page > 1) =>
          /\ LastPageOk
          /\ lastResp.body.json.total >= (page - 1) * 10000

(***************************************************************************)
(* Claims about the scheduler's pacing, stop and exit (Spec)               *)
(***************************************************************************)
\* the step in which the worker takes a request from the queue
TakeStep == startOrder' # startOrder

\* the worker's pacing: a reply step ends in the pacing sleep and nothing else
\* starts one; the sleep is left by the worker taking the next request, by
\* its suspending in recv or ending (the queue is empty), or by the drop of
\* the task; recv is entered only from the sleep; a request is taken only out
\* of the sleep or out of recv
PacingSteps ==
    /\ (\E r \in Reqs : ReplyStep(r)) <=> (pc # "sleep" /\ pc' = "sleep")
    /\ (pc = "sleep" /\ pc' # "sleep") =>
          \/ TakeStep /\ pc' = "http"
          \/ ~TakeStep /\ queue = <<>> /\ pc' \in {"recv", "done"}
          \/ ~TakeStep /\ cancelled /\ pc' = "aborted"
    /\ (pc # "recv" /\ pc' = "recv") => pc = "sleep"
    /\ TakeStep => pc \in {"sleep", "recv"}
    /\ (TakeStep /\ pc = "recv") =>
          startOrder = <<>> \/ sends[startOrder[Len(startOrder)]] = 1

\* C17: between the reply attempt for a request and the take of the next one
\* lies exactly one pacing sleep. The sleep starts in the step of the reply
\* attempt (the reply is with the caller while the worker sleeps), whatever
\* the result was and whether or not the send succeeded, and no request is
\* taken before it is over.
C17_Pacing ==
    /\ [](pc = "sleep" =>
             /\ cur = 0
             /\ startOrder # <<>>
             /\ sends[startOrder[Len(startOrder)]] = 1
             /\ reply[startOrder[Len(startOrder)]].st \in {"value", "closed"}
             /\ httpInFlight = 0)
    /\ [][PacingSteps]_vars

\* the worker sleeps after a reply whose send failed, with the next request
\* waiting in the queue
C17_Witness ==
    /\ pc = "sleep"
    /\ queue # <<>>
    /\ ~rxAlive[startOrder[Len(startOrder)]]
    /\ reply[startOrder[Len(startOrder)]].st = "closed"
    /\ Len(startOrder) >= 2
    /\ reply[startOrder[1]].st = "value"

\* a search is in progress and stop_scheduler has been called
StoppedInSearch == cancelled /\ cur # 0

\* C18 as stated: once stop_scheduler has been called with a search in
\* progress, no further page request of that search is issued and no reply
\* send happens for its request, whose receiver sees a closed channel when the
\* task is gone; the queue is not drained: what is in it is dropped with the
\* task.
C18_StopInFlight ==
    /\ [][StoppedInSearch =>
             /\ Len(calls') <= Len(calls)
             /\ sends' = sends
             /\ reply'[cur].st # "value"
             /\ ~TakeStep]_vars
    /\ [](pc = "aborted" =>
             /\ queue = <<>>
             /\ \A r \in Range(startOrder) : sends[r] = 0 => reply[r].st = "closed")

(***************************************************************************)
(* SpecExit: the scheduler without a stop. The runtime polls a task that   *)
(* was woken, and the provider answers every request: the steps of the     *)
(* worker are weakly fair.                                                 *)
(***************************************************************************)
ExitNext ==
    \/ TaskPoll
    \/ WorkerRecv
    \/ WorkerResponse
    \/ WorkerNextPage
    \/ Send
    \/ SendComplete
    \/ DropReceiver
    \/ CloneScheduler
    \/ RetrieveSender
    \/ DropSender
    \/ DropScheduler

SpecExit ==
    /\ Init
    /\ [][ExitNext]_vars
    /\ WF_vars(TaskPoll)
    /\ WF_vars(WorkerRecv)
    /\ WF_vars(WorkerResponse)
    /\ WF_vars(WorkerNextPage)

\* no producer remains: every Scheduler handle and every Sender is dropped
NoProducer == schedCount = 0 /\ ~senderAlive

\* the worker exits only with no producer and an empty queue; with an empty
\* queue and a producer its poll of recv only suspends it
ExitSteps ==
    /\ (pc # "done" /\ pc' = "done") => NoProducer /\ queue = <<>> /\ pc \in {"recv", "sleep"}
    /\ (running /\ pc \in {"recv", "sleep"} /\ queue = <<>> /\ ~NoProducer) =>
          pc' \in {pc, "recv"}
    /\ pc = "done" => pc' = "done"

\* C19: without a stop the worker reaches its terminal state iff no producer
\* remains and the queue is empty: it exits only then, and once no producer
\* remains it does exit, after every request that was enqueued has been
\* searched and its reply attempted; with an empty queue and a live producer
\* it only suspends.
C19_ExitOnClosure ==
    /\ [](pc = "done" =>
             /\ NoProducer
             /\ queue = <<>>
             /\ startOrder = enqOrder
             /\ \A r \in Range(enqOrder) : searches[r] = 1 /\ sends[r] = 1)
    /\ [](pc \notin {"aborted"} /\ ~cancelled)
    /\ [][ExitSteps]_vars
    /\ (NoProducer ~> pc = "done")

\* the worker has exited after the last producer went with requests in the
\* queue, all of which were answered
C19_Witness ==
    /\ pc = "done"
    /\ Len(enqOrder) >= 3
    /\ \A r \in Range(enqOrder) : sends[r] = 1
    /\ stopQueued = {}

(***************************************************************************)
(* SpecSameTotal: one direct call of search against a provider that        *)
(* answers every page with status 200, success = true, entries that parse  *)
(* and the total it reported on the first page. The provider answers every *)
(* request and the timer of the sleep fires: the steps are weakly fair.    *)
(***************************************************************************)
\* the entry lists in which every entry parses
ParsingEntryOpts ==
    {e \in EntryOpts : \A i \in 1..Len(e.list) : TryFromEntry(e.list[i]).ok}

\* the answers of such a provider to the request that is in flight
SameTotalResponses ==
    {[transport |-> TRUE, status |-> 200,
      body |-> [kind |-> "json",
                json |-> [balance |-> b, entries |-> e, success |-> TRUE,
                          total |-> t]]] :
        b \in Balances, e \in ParsingEntryOpts,
        t \in IF lastResp = NoResp THEN Totals ELSE {lastResp.body.json.total}}

SameTotalResponse ==
    /\ pc = "http"
    /\ \E resp \in SameTotalResponses :
          /\ SearchOnResponse(resp)
          /\ pc' = IF SearchPage(search_result, page, resp).kind = "continue"
                      THEN "pagesleep" ELSE "returned"
    /\ UNCHANGED schedVars

SameTotalNext == DirectCall \/ SameTotalResponse \/ DirectSleepDone

SpecSameTotal ==
    /\ SearchInit
    /\ [][SameTotalNext]_vars
    /\ WF_vars(SameTotalResponse)
    /\ WF_vars(DirectSleepDone)

\* the total the provider reports
TotalT == lastResp.body.json.total

FairNext ==
    \/ TaskPoll
    \/ WorkerRecv
    \/ WorkerResponse
    \/ WorkerNextPage
    \/ TaskDrop
    \/ Send
    \/ SendComplete
    \/ SendFail
    \/ DropReceiver
    \/ RetrieveSender
    \/ DropSender
    \/ DropScheduler
    \/ StopScheduler

SpecFair ==
    /\ Init
    /\ [][FairNext]_vars
    /\ WF_vars(TaskPoll)
    /\ WF_vars(WorkerRecv)
    /\ WF_vars(WorkerResponse)
    /\ WF_vars(WorkerNextPage)
    /\ WF_vars(TaskDrop)
    /\ WF_vars(SendComplete)
    /\ WF_vars(SendFail)

\* the reply channel of r is resolved: a Result was delivered, or it is closed
Resolved(r) == reply[r].st \in {"value", "closed"}

\* the send of r is suspended on the full queue
Suspended(r) == sst[r] \in {"waiting", "granted"}

\* nothing is left to wait for on r: its send is not suspended, and if it was
\* enqueued its reply channel is resolved
Settled(r) ==
    /\ ~Suspended(r)
    /\ sst[r] \in {"queued", "taken", "dropped"} => Resolved(r)

\* C22: no caller waits forever. Every request whose send completed has its
\* reply channel resolved in the end, with the Result or as closed, and every
\* send that is suspended on the full queue ends: the request is enqueued, or
\* the send fails, which happens only once the worker's end of the queue is
\* gone. A caller that keeps its receiver finds the channel closed only after
\* stop_scheduler. A resolved reply channel and an ended send stay so, hence
\* from some point on every request that was made is settled.
C22_NoCallerWaitsForever ==
    /\ [][\A r \in Reqs :
             /\ Resolved(r) => Resolved(r)'
             /\ (sst[r] # "none" /\ ~Suspended(r)) => ~Suspended(r)'
             /\ (Suspended(r) /\ ~Suspended(r)') => sst'[r] \in {"queued", "failed"}
             /\ (Suspended(r) /\ sst'[r] = "failed") => RxDropped
             /\ (~Resolved(r) /\ reply'[r].st = "closed" /\ rxAlive'[r]) =>
                    (cancelled /\ RxDropped')]_vars
    /\ <>[](\A r \in Reqs : Settled(r))

\* a send that was suspended on the full queue has failed after a stop, and
\* the requests that were queued are resolved as closed, an earlier one with
\* its value
C22_Witness ==
    /\ pc = "aborted"
    /\ \E r \in Reqs : sst[r] = "failed" /\ r \notin Range(enqOrder) /\ r <= QueueCap + 1
    /\ \E r \in Range(enqOrder) : reply[r].st = "value"
    /\ \A r \in Range(enqOrder) : Resolved(r)
    /\ Len(enqOrder) >= QueueCap


====
